---------------------------- MODULE Spec2Model ----------------------------
(***************************************************************************)
(* Verification model of stempy's features/zps.py: Zernike and generalized *)
(* pseudo-Zernike coefficient generation, the ZPs moment extractor and the *)
(* zmarray moment algebra.                                                 *)
(*                                                                         *)
(* Numbers.  Coefficients are exact rationals <<p, q>> (q > 0, reduced).   *)
(* Moment values are exact reals of the form sg * sqrt(num / den), written *)
(* <<sg, num, den>>; this set is closed under everything the algebra does  *)
(* to a moment for rotation angles that are multiples of 90 degrees        *)
(* (negation, modulus of a complex pair, division by a row's L2 norm).     *)
(* Complex moments are pairs <<re, im>> of such reals.                     *)
(***************************************************************************)
EXTENDS Integers, Sequences, FiniteSets, TLC

VARIABLES cq, cres, ext, recv, res, last

vars == <<cq, cres, ext, recv, res, last>>

(***************************************************************************)
(* Bounds of the model.                                                    *)
(***************************************************************************)
NMax == 2
CoeffNMax == 3
MaxAlpha == 2
MaxLen == 2
MaxExtAlpha == 0
GridSize == 2
MaxDim == 3
MaxBatch == 1
MaxImg == 1
MaxFits == 2
MaxChain == 1

\* alpha=None (the classical family) is written -1; a set alpha is >= 0.
None == 0 - 1

Alphas == 0..MaxAlpha

(***************************************************************************)
(* Exact arithmetic.                                                       *)
(***************************************************************************)
AbsI(x) == IF x < 0 THEN 0 - x ELSE x

Sgn(x) == IF x < 0 THEN 0 - 1 ELSE IF x = 0 THEN 0 ELSE 1

RECURSIVE GCD(_, _)
GCD(a, b) == IF b = 0 THEN a ELSE GCD(b, a % b)

\* the reduced rational p/q, q /= 0
Rat(p, q) ==
    LET g == GCD(AbsI(p), AbsI(q))
        s == IF q < 0 THEN 0 - 1 ELSE 1
    IN  <<(s * p) \div g, (s * q) \div g>>

RMul(x, y) ==
    LET a == Rat(x[1], y[2])
        b == Rat(y[1], x[2])
    IN  <<a[1] * b[1], a[2] * b[2]>>

RAdd(x, y) == Rat(x[1] * y[2] + y[1] * x[2], x[2] * y[2])

RECURSIVE Factorial(_)
Factorial(k) == IF k <= 0 THEN 1 ELSE k * Factorial(k - 1)

\* scipy.special.poch(x, k) for integers x >= 1, k >= 0: x (x+1) ... (x+k-1)
RECURSIVE Poch(_, _)
Poch(x, k) == IF k <= 0 THEN 1 ELSE Poch(x, k - 1) * (x + k - 1)

\* scipy.special.binom(n, k) on integers with n >= 0: zero outside 0..n
Binom(n, k) ==
    IF k < 0 \/ k > n THEN 0
    ELSE Factorial(n) \div (Factorial(k) * Factorial(n - k))

MinusOnePow(k) == IF k % 2 = 0 THEN 1 ELSE 0 - 1

Zeros(k) == [i \in 1..k |-> <<0, 1>>]

RECURSIVE SeqMax(_)
SeqMax(s) ==
    IF Len(s) = 1 THEN s[1]
    ELSE LET t == SeqMax(Tail(s)) IN IF s[1] > t THEN s[1] ELSE t

\* F(v), with v evaluated once
Let1(v, F(_)) == CHOOSE r \in {F(x) : x \in {v}} : TRUE

(***************************************************************************)
(* Coefficient generators.  A matrix is a sequence of rows; a row is a     *)
(* sequence of rationals, column c holding the coefficient of              *)
(* radius^(n_max + 1 - c).  The normalisation factor of a row is kept as   *)
(* its square (a rational), one per row: the entry of the normalised       *)
(* matrix is coefficient * sqrt(norm2).                                    *)
(***************************************************************************)
\* zp_norm squared
zp_norm(n, m) == IF m = 0 THEN <<n + 1, 1>> ELSE <<2 * n + 2, 1>>

\* lines 41-44: the n + 1 coefficients of one polynomial, descending power
zp_coeffs(n, mabs) ==
    LET num == (n - mabs) \div 2
        coef(i) ==
            LET k == i \div 2
            IN  IF i % 2 = 0
                THEN <<MinusOnePow(k) * Binom(n - k, k) * Binom(n - 2 * k, num - k), 1>>
                ELSE <<0, 1>>
    IN  [c \in 1..(n + 1) |-> coef(c - 1)]

\* zp_row with the padding of line 43 at the wrong end of the row
zp_row_PadRight(n, mabs, nmax) == zp_coeffs(n, mabs) \o Zeros(nmax - n)

zp_row(n, mabs, nmax) == Zeros(nmax - n) \o zp_coeffs(n, mabs)

\* the assertion of line 38 looking at the first pair only
zp_assert_FirstOnly(N, M) == (N[1] - AbsI(M[1])) % 2 = 0

zp_assert(N, M) == \A i \in 1..Len(N) : (N[i] - AbsI(M[i])) % 2 = 0

zp_get_coeffs(N, M, normalize) ==
    LET nmax == SeqMax(N)
    IN  IF ~zp_assert(N, M)
        THEN [ok |-> FALSE, mat |-> <<>>, norm2 |-> <<>>]
        ELSE [ok |-> TRUE,
              mat |-> [i \in 1..Len(N) |-> zp_row(N[i], AbsI(M[i]), nmax)],
              norm2 |-> [i \in 1..Len(N) |->
                           IF normalize THEN zp_norm(N[i], M[i]) ELSE <<1, 1>>]]

\* gpzp_norm squared
gpzp_norm(n, m, alpha) ==
    LET mabs == AbsI(m)
        b == n - mabs
        ratio == Rat(Poch(b + alpha + 1, 2 * mabs + 1), Poch(b + 1, 2 * mabs + 1))
    IN  IF m = 0 THEN RMul(<<2 * n + alpha + 2, 2>>, ratio)
        ELSE RMul(<<2 * n + alpha + 2, 1>>, ratio)

gpzp_row(n, mabs, alpha, nmax) ==
    LET a == n + mabs
        b == n - mabs
        c == Rat(Factorial(a + 1), Poch(alpha + 1, a + 1))
        coef(k) ==
            RMul(c, Rat(MinusOnePow(k) * Poch(alpha + 1, 2 * n + 1 - k),
                        Factorial(k) * Factorial(a + 1 - k) * Factorial(b - k)))
    IN  Zeros(nmax - n) \o [j \in 1..(b + 1) |-> coef(j - 1)] \o Zeros(n - b)

gpzp_get_coeffs(N, M, alpha, normalize) ==
    LET nmax == SeqMax(N)
    IN  [ok |-> TRUE,
         mat |-> [i \in 1..Len(N) |-> gpzp_row(N[i], AbsI(M[i]), alpha, nmax)],
         norm2 |-> [i \in 1..Len(N) |->
                      IF normalize THEN gpzp_norm(N[i], M[i], alpha) ELSE <<1, 1>>]]

\* the arguments and the outcome of a generator call, before any call
NoQuery == [N |-> <<>>, M |-> <<>>, alpha |-> None, normalize |-> FALSE]

NoResult == [gen |-> "none", ok |-> FALSE, mat |-> <<>>, norm2 |-> <<>>]

Returned(gen, r) == [gen |-> gen, ok |-> r.ok, mat |-> r.mat, norm2 |-> r.norm2]

(***************************************************************************)
(* Index utilities imported from .utils (nm2j, j2nm, nm2j_complex).  The   *)
(* linear index j is 0-based, as in the program.                           *)
(***************************************************************************)
nm2j(n, m, alpha) ==
    IF alpha = None THEN (n * (n + 2) + m) \div 2 ELSE n * (n + 1) + m

j2nm(j, alpha) ==
    IF alpha = None
    THEN LET n == CHOOSE k \in 0..j :
                     (k * (k + 1)) \div 2 <= j /\ j < ((k + 1) * (k + 2)) \div 2
         IN  <<n, 2 * j - n * (n + 2)>>
    ELSE LET n == CHOOSE k \in 0..j : k * k <= j /\ j < (k + 1) * (k + 1)
         IN  <<n, j - n * (n + 1)>>

nm2j_complex(n, mabs, alpha) ==
    IF alpha = None
    THEN IF n % 2 = 0 THEN (n * n + 2 * n + 2 * mabs) \div 4
         ELSE (n * n + 2 * n + 2 * mabs - 1) \div 4
    ELSE (n * (n + 1)) \div 2 + mabs

(***************************************************************************)
(* Exact moment values.  A real is <<sg, num, den>> = sg * sqrt(num/den),  *)
(* num/den reduced, zero is <<0, 0, 1>>.  Unrep stands for a real outside  *)
(* this set (a sum of incommensurable square roots).                       *)
(***************************************************************************)
Zero == <<0, 0, 1>>

Unrep == <<2, 0, 1>>

IsUnrep(x) == x[1] = 2

\* the integer k as a real
RealOf(k) == IF k = 0 THEN Zero ELSE <<Sgn(k), k * k, 1>>

NegR(x) == IF IsUnrep(x) THEN x ELSE <<0 - x[1], x[2], x[3]>>

\* x * c for an integer c
ScaleR(c, x) ==
    IF c = 0 \/ x = Zero THEN Zero
    ELSE IF IsUnrep(x) THEN Unrep
    ELSE LET q == Rat(x[2] * c * c, x[3]) IN <<x[1] * Sgn(c), q[1], q[2]>>

IsSquare(p) == \E r \in 0..p : r * r = p

ISqrt(p) == CHOOSE r \in 0..p : r * r = p

AddR(x, y) ==
    IF x = Zero THEN y
    ELSE IF y = Zero THEN x
    ELSE IF IsUnrep(x) \/ IsUnrep(y) THEN Unrep
    ELSE LET q == RMul(<<x[2], x[3]>>, <<y[3], y[2]>>)   \* (x/y)^2
         IN  IF ~(IsSquare(q[1]) /\ IsSquare(q[2])) THEN Unrep
             ELSE LET k == x[1] * ISqrt(q[1]) + y[1] * ISqrt(q[2])
                      v == RMul(<<k * k, ISqrt(q[2]) * ISqrt(q[2])>>, <<y[2], y[3]>>)
                  IN  IF k = 0 THEN Zero ELSE <<Sgn(k), v[1], v[2]>>

\* x^2 as a rational
SqR(x) == <<x[2], x[3]>>

\* sqrt(q) for a rational q >= 0
SqrtR(q) == IF q[1] = 0 THEN Zero ELSE <<1, q[1], q[2]>>

\* x / sqrt(q) for a rational q > 0
DivSqrtR(x, q) ==
    IF x = Zero \/ IsUnrep(x) THEN x
    ELSE LET v == RMul(<<x[2], x[3]>>, <<q[2], q[1]>>) IN <<x[1], v[1], v[2]>>

\* A moment is a pair <<re, im>> of reals; im = Zero in a real array.
Cx(re, im) == <<re, im>>

CZero == Cx(Zero, Zero)

AddC(z, w) == Cx(AddR(z[1], w[1]), AddR(z[2], w[2]))

ScaleC(c, z) == Cx(ScaleR(c, z[1]), ScaleR(c, z[2]))

\* z times the imaginary unit
TimesI(z) == Cx(NegR(z[2]), z[1])

\* np.abs of a moment
AbsC(z) ==
    IF IsUnrep(z[1]) \/ IsUnrep(z[2]) THEN Cx(Unrep, Zero)
    ELSE Cx(SqrtR(RAdd(SqR(z[1]), SqR(z[2]))), Zero)

RECURSIVE SumC(_)
SumC(s) == IF s = <<>> THEN CZero ELSE AddC(s[1], SumC(Tail(s)))

RECURSIVE SumRat(_)
SumRat(s) == IF s = <<>> THEN <<0, 1>> ELSE RAdd(s[1], SumRat(Tail(s)))

RECURSIVE SumInt(_)
SumInt(s) == IF s = <<>> THEN 0 ELSE s[1] + SumInt(Tail(s))

\* cos and sin of an angle in degrees that is a multiple of 90
CosDeg(t) ==
    LET q == (t % 360) \div 90
    IN  IF q = 0 THEN 1 ELSE IF q = 2 THEN 0 - 1 ELSE 0

SinDeg(t) ==
    LET q == (t % 360) \div 90
    IN  IF q = 1 THEN 1 ELSE IF q = 3 THEN 0 - 1 ELSE 0

(***************************************************************************)
(* Moment arrays (class zmarray): a buffer of rows (one per sample) of     *)
(* moments, the metadata n, m, alpha, and the image and fit call the       *)
(* values were extracted from.  dtype is "real" or "complex"; "plain" is   *)
(* an ndarray without metadata, "none" is None.                            *)
(***************************************************************************)
NoArr == [dtype |-> "none", buf |-> <<>>, n |-> <<>>, m |-> <<>>,
          alpha |-> None, img |-> 0, call |-> 0]

PlainArr == [dtype |-> "plain", buf |-> <<>>, n |-> <<>>, m |-> <<>>,
             alpha |-> None, img |-> 0, call |-> 0]

IsZm(A) == A.dtype \in {"real", "complex"}

Rows(A) == Len(A.buf)

Cols(A) == IF A.buf = <<>> THEN 0 ELSE Len(A.buf[1])

\* zmarray.__new__ with n and m given
zmarray(buf, dtype, n, m, alpha, src) ==
    [dtype |-> dtype, buf |-> buf, n |-> n, m |-> m, alpha |-> alpha,
     img |-> src.img, call |-> src.call]

\* zmarray.__array_finalize__ on a basic column slice [:, 0:k] of A
SliceCols(A, k) ==
    LET c == IF k < Cols(A) THEN k ELSE Cols(A)
    IN  [A EXCEPT !.buf = [r \in 1..Rows(A) |-> [i \in 1..c |-> A.buf[r][i]]]]

Sub(s, ind) == [k \in 1..Len(ind) |-> s[ind[k]]]

SetOfAbs(s) == {AbsI(s[i]) : i \in 1..Len(s)}

\* the states argument: kind "none" (None), "scalar" (v = {k}) or "list"
NoStates == [kind |-> "none", v |-> {}]

Scalar(k) == [kind |-> "scalar", v |-> {k}]

List(S) == [kind |-> "list", v |-> S]

_get_m_states(m, states) ==
    IF states.kind = "none" THEN SetOfAbs(m)
    ELSE IF states.kind = "scalar"
         THEN LET k == CHOOSE x \in states.v : TRUE
              IN  IF k < 0 THEN SetOfAbs(m) \ {0} ELSE {k}
         ELSE {AbsI(x) : x \in states.v}

\* np.where(np.in1d(np.abs(m), states))[0], 1-based
RECURSIVE Where(_, _, _)
Where(m, S, i) ==
    IF i > Len(m) THEN <<>>
    ELSE (IF AbsI(m[i]) \in S THEN <<i>> ELSE <<>>) \o Where(m, S, i + 1)

\* the outcome of a zmarray method: ok (no exception), the returned value,
\* the receiver after the call, whether the returned value is a new buffer,
\* and the alpha handed to the index lookups (lookup) of the call
Raised(A) == [ok |-> FALSE, arr |-> NoArr, self |-> A, fresh |-> FALSE,
              lookup |-> FALSE, alphaUsed |-> None]

Ret(arr, A, fresh, lookup, alphaUsed) ==
    [ok |-> TRUE, arr |-> arr, self |-> A, fresh |-> fresh,
     lookup |-> lookup, alphaUsed |-> alphaUsed]

select(A, states) ==
    Let1(Where(A.m, _get_m_states(A.m, states), 1), LAMBDA ind :
        IF \E k \in 1..Len(ind) : ind[k] > Cols(A) \/ ind[k] > Len(A.n)
        THEN Raised(A)
        ELSE Ret(zmarray([r \in 1..Rows(A) |-> Sub(A.buf[r], ind)], A.dtype,
                         Sub(A.n, ind), Sub(A.m, ind), A.alpha, A),
                 A, TRUE, FALSE, None))

RECURSIVE SortedSeq(_)
SortedSeq(S) ==
    IF S = {} THEN <<>>
    ELSE LET mn == CHOOSE x \in S : \A y \in S : x <= y
         IN  <<mn>> \o SortedSeq(S \ {mn})

\* The fold matrix: entry "one" is 1, "j" is the imaginary unit, "0" is 0.
construct_complex_matrix(n, m, alpha) ==
    Let1([i \in 1..Len(n) |-> nm2j_complex(n[i], AbsI(m[i]), alpha)], LAMBDA j2 :
        Let1(SortedSeq({j2[i] : i \in 1..Len(n)}), LAMBDA uniq_j2 :
            [k \in 1..Len(uniq_j2) |->
                [i \in 1..Len(n) |->
                    IF j2[i] # uniq_j2[k] THEN "0"
                    ELSE IF m[i] >= 0 THEN "one" ELSE "j"]]))

\* lines 362-367: the folded buffer and the metadata recomputed from the
\* matrix with its imaginary entries zeroed
Fold(A, c_matrix) ==
    LET term(e, z) == IF e = "one" THEN z ELSE IF e = "j" THEN TimesI(z) ELSE CZero
        zm_complex == [r \in 1..Rows(A) |->
                         [k \in 1..Len(c_matrix) |->
                             SumC([i \in 1..Len(A.n) |-> term(c_matrix[k][i], A.buf[r][i])])]]
        pick(k, s) == SumInt([i \in 1..Len(s) |->
                                 IF c_matrix[k][i] = "one" THEN AbsI(s[i]) ELSE 0])
        m == [k \in 1..Len(c_matrix) |-> pick(k, A.m)]
        n == [k \in 1..Len(c_matrix) |-> pick(k, A.n)]
    IN  zmarray(zm_complex, "complex", n, m, A.alpha, A)

complex(A) ==
    IF A.dtype = "complex" THEN Ret(A, A, FALSE, FALSE, None)
    ELSE IF Len(A.n) # Cols(A) THEN Raised(A)
    ELSE Let1(construct_complex_matrix(A.n, A.m, A.alpha), LAMBDA c_matrix :
             Ret(Fold(A, c_matrix), A, TRUE, TRUE, A.alpha))

\* line 374: the columns with m # 0 overwritten, in place, by their modulus
Masked(zm_complex) ==
    [zm_complex EXCEPT !.buf =
        [r \in 1..Rows(zm_complex) |->
            [k \in 1..Cols(zm_complex) |->
                IF zm_complex.m[k] = 0 THEN zm_complex.buf[r][k]
                ELSE AbsC(zm_complex.buf[r][k])]]]

\* .real
RealPart(buf) == [r \in 1..Len(buf) |-> [k \in 1..Len(buf[r]) |-> Cx(buf[r][k][1], Zero)]]

\* zm_complex is the receiver itself when the receiver is complex, and the
\* write of line 374 then lands in the receiver's buffer
rotinv(A) ==
    Let1(complex(A), LAMBDA c :
        IF ~c.ok THEN Raised(A)
        ELSE IF Len(c.arr.m) # Cols(c.arr) THEN Raised(A)
        ELSE Let1(Masked(c.arr), LAMBDA zm_complex :
                 Ret(zmarray(RealPart(zm_complex.buf), "real", zm_complex.n,
                             zm_complex.m, A.alpha, A),
                     IF A.dtype = "complex" THEN zm_complex ELSE A,
                     A.dtype # "complex", A.dtype # "complex", A.alpha)))

\* row[j] = v on a 0-based index j; the write is dropped here when j is out
\* of range, and the builders report the IndexError through their ok field
SetAt(row, j, v) == IF j + 1 \in 1..Len(row) THEN [row EXCEPT ![j + 1] = v] ELSE row

construct_rot_matrix(n, m, theta, alpha) ==
    LET K == Len(n)
        zeros == [c \in 1..K |-> 0]
        row(i) ==
            LET t == theta * AbsI(m[i])
                j1 == nm2j(n[i], m[i], alpha)
                j2 == nm2j(n[i], 0 - m[i], alpha)
            IN  IF m[i] = 0 THEN SetAt(zeros, j1, 1)
                ELSE IF m[i] < 0
                     THEN SetAt(SetAt(zeros, j1, CosDeg(t)), j2, 0 - SinDeg(t))
                     ELSE SetAt(SetAt(zeros, j1, CosDeg(t)), j2, SinDeg(t))
    IN  [ok |-> \A i \in 1..K : nm2j(n[i], m[i], alpha) < K /\ nm2j(n[i], 0 - m[i], alpha) < K,
         mat |-> [i \in 1..K |-> row(i)]]

construct_ref_matrix(n, m, theta, alpha) ==
    LET K == Len(n)
        zeros == [c \in 1..K |-> 0]
        row(i) ==
            LET t == 2 * theta * AbsI(m[i])
                j1 == nm2j(n[i], m[i], alpha)
                j2 == nm2j(n[i], 0 - m[i], alpha)
            IN  IF m[i] = 0 THEN SetAt(zeros, j1, 1)
                ELSE IF m[i] < 0
                     THEN SetAt(SetAt(zeros, j1, 0 - CosDeg(t)), j2, 0 - SinDeg(t))
                     ELSE SetAt(SetAt(zeros, j1, CosDeg(t)), j2, 0 - SinDeg(t))
    IN  [ok |-> \A i \in 1..K : nm2j(n[i], m[i], alpha) < K /\ nm2j(n[i], 0 - m[i], alpha) < K,
         mat |-> [i \in 1..K |-> row(i)]]

\* matrix.dot(self.T).T
Apply(mat, A) ==
    [r \in 1..Rows(A) |->
        [i \in 1..Len(mat) |->
            SumC([c \in 1..Len(mat[i]) |-> ScaleC(mat[i][c], A.buf[r][c])])]]

rot(A, theta) ==
    Let1(construct_rot_matrix(A.n, A.m, theta, None), LAMBDA rot_matrix :
        IF ~rot_matrix.ok \/ Len(A.n) # Cols(A) THEN Raised(A)
        ELSE Ret(zmarray(Apply(rot_matrix.mat, A), A.dtype, A.n, A.m, A.alpha, A),
                 A, TRUE, TRUE, None))

ref(A, theta) ==
    Let1(construct_ref_matrix(A.n, A.m, theta, None), LAMBDA ref_matrix :
        IF ~ref_matrix.ok \/ Len(A.n) # Cols(A) THEN Raised(A)
        ELSE Ret(zmarray(Apply(ref_matrix.mat, A), A.dtype, A.n, A.m, A.alpha, A),
                 A, TRUE, TRUE, None))

\* sklearn normalize(self, axis=1, norm='l2'): a zero row is left as it is
normalize(A) ==
    LET l2(row) == SumRat([i \in 1..Len(row) |-> SqR(row[i][1])])
        scaled(row) ==
            Let1(l2(row), LAMBDA q :
                IF q[1] = 0 THEN row
                ELSE [i \in 1..Len(row) |-> Cx(DivSqrtR(row[i][1], q), Zero)])
    IN  IF A.dtype = "complex" THEN Ret(A, A, FALSE, FALSE, None)
        ELSE IF Cols(A) = 0 THEN Raised(A)
        ELSE Ret(zmarray([r \in 1..Rows(A) |-> scaled(A.buf[r])], "real", A.n, A.m, None, A),
                 A, TRUE, FALSE, None)

maps(A, n_fold) ==
    IF n_fold = 1 \/ Len(A.m) # Cols(A) THEN Raised(A)
    ELSE Ret(PlainArr, A, TRUE, FALSE, None)

rot_curve(A) ==
    IF Len(A.m) # Cols(A) THEN Raised(A)
    ELSE Ret(PlainArr, A, TRUE, FALSE, None)

reflect_curve(A) ==
    Let1(select(A, Scalar(0 - 1)), LAMBDA s :
        IF ~s.ok THEN Raised(A)
        ELSE Let1(normalize(s.arr), LAMBDA nn :
                 IF ~nn.ok THEN Raised(A)
                 ELSE Let1(complex(nn.arr), LAMBDA c :
                          IF ~c.ok THEN Raised(A)
                          ELSE Ret(PlainArr, A, TRUE, c.lookup, c.alphaUsed))))

reflect_map(A) == reflect_curve(A)

\* zps_data is a basis tensor of ncomp polynomials
reconstruct(A, ncomp) ==
    IF Cols(A) # ncomp THEN Raised(A)
    ELSE Ret(PlainArr, A, TRUE, FALSE, None)

(***************************************************************************)
(* The extractor (class ZPs).  The basis tensor self.data is immutable and *)
(* has shape (Len(n), size, size); only its shape is kept.                 *)
(***************************************************************************)
\* generate_data_from_nm: n.max() needs a polynomial, then the coefficients
generate_data_from_nm(n, m, alpha) ==
    /\ Len(n) > 0
    /\ IF alpha = None THEN zp_get_coeffs(n, m, TRUE).ok
       ELSE gpzp_get_coeffs(n, m, alpha, TRUE).ok

ZPs__init__(n_max, size, alpha, states) ==
    Let1([j \in 1..(nm2j(n_max, n_max, alpha) + 1) |-> j2nm(j - 1, alpha)], LAMBDA nm :
        Let1(Where([j \in 1..Len(nm) |-> nm[j][2]],
                   _get_m_states([j \in 1..Len(nm) |-> nm[j][2]], states), 1), LAMBDA ind :
            Let1([k \in 1..Len(ind) |-> nm[ind[k]]], LAMBDA sel :
                 Let1([k \in 1..Len(sel) |-> sel[k][1]], LAMBDA n :
                     Let1([k \in 1..Len(sel) |-> sel[k][2]], LAMBDA m :
                         [ok |-> generate_data_from_nm(n, m, alpha),
                          n_max |-> n_max, size |-> size, alpha |-> alpha,
                          states |-> states, n |-> n, m |-> m,
                          n_components_ |-> Len(n), moments |-> NoArr, fits |-> 0])))))

\* The value the extraction stores for sample r of image id and polynomial
\* (n, m): the numerical strategies are not modelled, every strategy stores
\* this moment.
Val(id, r, n, m) == ((id * (n + 1) + m + n + r) % 3) - 1

Moments(e, id, rows) ==
    [r \in 1..rows |-> [i \in 1..Len(e.n) |-> Cx(RealOf(Val(id, r, e.n[i], e.m[i])), Zero)]]

\* the dispatch without the override of line 204
Dispatch_KeepMethod(e, X, method) ==
    IF X.ndim = 2
    THEN IF X.h = e.size THEN [shape |-> <<1, X.h, X.w>>, method |-> method]
         ELSE IF X.h > e.size
              THEN [shape |-> <<e.n_components_, X.h, X.w>>, method |-> method]
              ELSE [shape |-> <<X.h, X.w>>, method |-> method]
    ELSE [shape |-> <<X.b, X.h, X.w>>, method |-> method]

\* lines 196-206: the shape of X and the method after the 2D dispatch
Dispatch(e, X, method) ==
    IF X.ndim = 2
    THEN IF X.h = e.size THEN [shape |-> <<1, X.h, X.w>>, method |-> method]
         ELSE IF X.h > e.size
              THEN [shape |-> <<e.n_components_, X.h, X.w>>, method |-> "fftconv"]
              ELSE [shape |-> <<X.h, X.w>>, method |-> method]
    ELSE [shape |-> <<X.b, X.h, X.w>>, method |-> method]

RECURSIVE Prod(_)
Prod(s) == IF s = <<>> THEN 1 ELSE s[1] * Prod(Tail(s))

\* numpy broadcasting of two axis lengths
Broadcastable(a, b) == a = b \/ a = 1 \/ b = 1

\* lines 208-247: the branch that runs on X of the given shape, whether it
\* ends without an exception, and the number of rows of the moment array
Strategy(e, shape, method) ==
    LET N == Len(e.n)
        feats == Prod(Tail(shape))
        flat == [ran |-> method, ok |-> feats = e.size * e.size, rows |-> shape[1]]
    IN  IF method \in {"matrix", "transpose", "pseudo"} THEN flat
        ELSE IF method = "direct"
             THEN [ran |-> method,
                   ok |-> IF Len(shape) = 3
                          THEN Broadcastable(shape[2], e.size) /\ Broadcastable(shape[3], e.size)
                          ELSE Broadcastable(shape[2], e.size),
                   rows |-> shape[1]]
        ELSE IF method = "fftconv"
             THEN [ran |-> method,
                   ok |-> Len(shape) = 3 /\ Broadcastable(shape[1], N),
                   rows |-> IF Len(shape) = 3
                            THEN ((IF shape[1] > N THEN shape[1] ELSE N) * shape[2] * shape[3]) \div N
                            ELSE 0]
        ELSE [ran |-> "none", ok |-> TRUE, rows |-> 0]

fit(e, X, method) ==
    LET d == Dispatch(e, X, method)
        st == Strategy(e, d.shape, d.method)
        \* n_samples_ and n_features_ (line 206) are d.shape[1] and the product
        \* of the rest; nothing reads them, and the record of the call keeps shape
        counted == [e EXCEPT !.fits = e.fits + 1]
        stored == zmarray(Moments(e, X.id, st.rows), "real", e.n, e.m, e.alpha,
                          [img |-> X.id, call |-> e.fits + 1])
    IN  [ok |-> st.ok, ran |-> st.ran, method |-> d.method, shape |-> d.shape,
         self |-> IF st.ok /\ st.ran # "none"
                  THEN [counted EXCEPT !.moments = stored]
                  ELSE counted]

n_components_to_nmax(n_components, alpha) == j2nm(n_components - 1, alpha)[1]

\* ps_zps (alpha = None) and ps_pzp: the call raises when the fit does
ps_zps(ps, n_components, alpha) ==
    Let1(ZPs__init__(n_components_to_nmax(n_components, alpha),
                     IF ps.ndim = 3 THEN ps.h ELSE ps.w, alpha, NoStates), LAMBDA zps :
        IF ~zps.ok THEN Raised(NoArr)
        ELSE Let1(fit(zps, ps, "matrix"), LAMBDA fitted :
                 IF ~fitted.ok THEN Raised(NoArr)
                 ELSE Ret(SliceCols(fitted.self.moments, n_components),
                          NoArr, TRUE, FALSE, None)))

(***************************************************************************)
(* The state machine.  ext is the extractor, recv the moment array the     *)
(* caller holds, res the value its last call returned and last a record of *)
(* that call.                                                              *)
(***************************************************************************)
Methods == {"matrix", "direct", "transpose", "pseudo", "fftconv", "auto"}

FiveMethods == Methods \ {"auto"}

Images ==
    [id : 1..MaxImg, ndim : {2}, b : {0}, h : 1..MaxDim, w : 1..MaxDim]
        \cup [id : 1..MaxImg, ndim : {3}, b : 1..MaxBatch, h : 1..MaxDim, w : 1..MaxDim]

NoImg == [id |-> 0, ndim |-> 0, b |-> 0, h |-> 0, w |-> 0]

ExtAlphas == {None} \cup (0..MaxExtAlpha)

\* states=None, a number (negative: every non-zero |m|), or a list
ScalarArgs == {NoStates} \cup {Scalar(k) : k \in (0 - 1)..NMax}

StateArgs == ScalarArgs \cup {List({0, k}) : k \in 1..NMax}

RotThetas == {0, 90, 180, 270}

RefThetas == {0, 45, 90, 135}

AlgebraOps == {"select", "complex", "rotinv", "rot", "ref", "normalize", "maps",
               "rot_curve", "reflect_curve", "reflect_map", "reconstruct"}

NoLast == [op |-> "init", arg |-> 0, method |-> "", ran |-> "", img |-> NoImg,
           shape |-> <<>>, ok |-> TRUE, fresh |-> FALSE, lookup |-> FALSE,
           alphaUsed |-> None, depth |-> 0]

Init ==
    /\ \E n_max \in 0..NMax, alpha \in ExtAlphas, states \in ScalarArgs :
          \E zps \in {ZPs__init__(n_max, GridSize, alpha, states)} :
              zps.ok /\ ext = zps
    /\ recv = NoArr
    /\ res = NoArr
    /\ last = NoLast
    /\ cq = NoQuery
    /\ cres = NoResult

Fit ==
    \E X \in Images, method \in Methods :
        \E o \in {fit(ext, X, method)} :
            /\ recv = NoArr
            /\ last.op \in {"init", "fit"}
            /\ ext.fits < MaxFits
            /\ ext' = o.self
            /\ last' = [NoLast EXCEPT !.op = "fit", !.method = method, !.ran = o.ran,
                                      !.img = X, !.shape = o.shape, !.ok = o.ok]
            /\ UNCHANGED <<recv, res, cq, cres>>

\* the caller reads self.moments
Take ==
    /\ recv = NoArr
    /\ last.op = "fit"
    /\ ext.moments # NoArr
    /\ recv' = ext.moments
    /\ last' = [NoLast EXCEPT !.op = "take"]
    /\ UNCHANGED <<ext, res, cq, cres>>

\* a call of ps_zps or ps_pzp; res is the array it hands back
PsCall(name, ps, n_components, alpha) ==
    \E o \in {ps_zps(ps, n_components, alpha)} :
        /\ last.op = "init"
        /\ res' = o.arr
        /\ last' = [NoLast EXCEPT !.op = name, !.arg = n_components, !.img = ps, !.ok = o.ok]
        /\ UNCHANGED <<ext, recv, cq, cres>>

PsZps ==
    \E ps \in Images, n_components \in 1..(nm2j(NMax, NMax, None) + 1) :
        PsCall("ps_zps", ps, n_components, None)

PsPzp ==
    \E ps \in Images, alpha \in 0..MaxExtAlpha, n_components \in 1..(nm2j(NMax, NMax, 0) + 1) :
        PsCall("ps_pzp", ps, n_components, alpha)

\* one call of a zmarray method on recv
Call(name, arg, out) ==
    /\ IsZm(recv)
    /\ \E o \in {out} :
          /\ recv' = o.self
          /\ res' = o.arr
          /\ last' = [NoLast EXCEPT !.op = name, !.arg = arg, !.ok = o.ok,
                                    !.fresh = o.fresh, !.lookup = o.lookup,
                                    !.alphaUsed = o.alphaUsed, !.depth = last.depth]
    /\ UNCHANGED <<ext, cq, cres>>

\* the argument of select as a number, for the record of the call
ArgOf(states) == IF states.kind = "none" THEN 0 - 2 ELSE SumInt(SortedSeq(states.v))

Select == \E states \in StateArgs : Call("select", ArgOf(states), select(recv, states))

Complex == Call("complex", 0, complex(recv))

Rotinv == Call("rotinv", 0, rotinv(recv))

Rot == \E theta \in RotThetas : Call("rot", theta, rot(recv, theta))

Ref == \E theta \in RefThetas : Call("ref", theta, ref(recv, theta))

Normalize == Call("normalize", 0, normalize(recv))

MapsCall == \E n_fold \in 1..3 : Call("maps", n_fold, maps(recv, n_fold))

RotCurve == Call("rot_curve", 0, rot_curve(recv))

ReflectCurve == Call("reflect_curve", 0, reflect_curve(recv))

ReflectMap == Call("reflect_map", 0, reflect_map(recv))

Reconstruct == Call("reconstruct", 0, reconstruct(recv, ext.n_components_))

\* the caller goes on with the array the last call returned
Chain ==
    /\ IsZm(res)
    /\ last.depth < MaxChain
    /\ recv' = res
    /\ res' = NoArr
    /\ last' = [NoLast EXCEPT !.op = "chain", !.depth = last.depth + 1]
    /\ UNCHANGED <<ext, cq, cres>>

AlgebraStep ==
    \/ Select \/ Complex \/ Rotinv \/ Rot \/ Ref \/ Normalize
    \/ MapsCall \/ RotCurve \/ ReflectCurve \/ ReflectMap \/ Reconstruct

\* the first fit call of a configured extractor
FirstFit == ext.fits = 0 /\ Fit

\* A configured extractor, one fit, and the algebra on the moments it holds.
Next == FirstFit \/ Take \/ AlgebraStep \/ Chain

Spec == Init /\ [][Next]_vars

\* A configured extractor fitted again and again.
SpecFit == Init /\ [][Fit]_vars

\* A configured extractor and its first fit call.
SpecFirstFit == Init /\ [][FirstFit]_vars

\* The functional form: ps_zps and ps_pzp build their own extractor, so the
\* initial state holds no configuration of interest.
InitPs ==
    /\ ext = ZPs__init__(0, GridSize, None, NoStates)
    /\ recv = NoArr
    /\ res = NoArr
    /\ last = NoLast
    /\ cq = NoQuery
    /\ cres = NoResult

NextPs == PsZps \/ PsPzp \/ Chain \/ AlgebraStep

SpecPs == InitPs /\ [][NextPs]_vars

(***************************************************************************)
(* Specification of the coefficient generators.  The initial states draw   *)
(* the arguments: every list of at most MaxLen pairs (n, m) with           *)
(* 0 <= n <= CoeffNMax and |m| <= n, an alpha and the normalize flag; an   *)
(* action applies one generator to them.                                   *)
(***************************************************************************)
Pairs == {p \in (0..CoeffNMax) \X ((0 - CoeffNMax)..CoeffNMax) : AbsI(p[2]) <= p[1]}

PairLists == UNION {[1..k -> Pairs] : k \in 1..MaxLen}

CallZp ==
    /\ cres.gen = "none"
    /\ cres' = Returned("zp", zp_get_coeffs(cq.N, cq.M, cq.normalize))
    /\ UNCHANGED <<cq, ext, recv, res, last>>

CallGpzp ==
    /\ cres.gen = "none"
    /\ cres' = Returned("gpzp", gpzp_get_coeffs(cq.N, cq.M, cq.alpha, cq.normalize))
    /\ UNCHANGED <<cq, ext, recv, res, last>>

InitCoeffs ==
    /\ \E L \in PairLists, al \in Alphas, nz \in BOOLEAN :
          cq = [N |-> [i \in 1..Len(L) |-> L[i][1]],
                M |-> [i \in 1..Len(L) |-> L[i][2]],
                alpha |-> al, normalize |-> nz]
    /\ cres = NoResult
    /\ ext = ZPs__init__(0, GridSize, None, NoStates)
    /\ recv = NoArr
    /\ res = NoArr
    /\ last = NoLast

NextCoeffs == CallZp \/ CallGpzp

SpecCoeffs == InitCoeffs /\ [][NextCoeffs]_vars

(***************************************************************************)
(* Claims about the coefficient generators (checked under SpecCoeffs).     *)
(***************************************************************************)
AllEven == \A i \in 1..Len(cq.N) : (cq.N[i] - AbsI(cq.M[i])) % 2 = 0

CoeffNMaxOf == SeqMax(cq.N)

\* entry (i, c) of the returned matrix is non-zero
NonZeroAt(i, c) == cres.mat[i][c][1] # 0 /\ cres.norm2[i][1] # 0

\* the power of radius that column c holds
PowerOf(c) == CoeffNMaxOf + 1 - c

\* C3 as stated: both generators fail exactly when some pair has n - |m| odd.
C3_BothGeneratorsRejectOdd ==
    cres.gen # "none" => (cres.ok <=> AllEven)

\* C3 amended: zp_get_coeffs fails exactly when some pair has n - |m| odd;
\* gpzp_get_coeffs makes no parity check and returns a matrix with one row
\* per input pair whatever the parity of n - |m|.
C3_OnlyClassicalRejectsOdd ==
    /\ cres.gen = "zp" => (cres.ok <=> AllEven)
    /\ cres.gen = "zp" /\ ~cres.ok => cres.mat = <<>>
    /\ cres.gen = "gpzp" => (cres.ok /\ Len(cres.mat) = Len(cq.N))

\* zp_get_coeffs has refused a list whose second pair alone is odd
C3_Witness ==
    /\ cres.gen = "zp"
    /\ ~cres.ok
    /\ Len(cq.N) = 2
    /\ (cq.N[1] - AbsI(cq.M[1])) % 2 = 0
    /\ (cq.N[2] - AbsI(cq.M[2])) % 2 = 1

RowShape(i) ==
    /\ Len(cres.mat[i]) = CoeffNMaxOf + 1
    /\ \A c \in 1..(CoeffNMaxOf - cq.N[i]) : ~NonZeroAt(i, c)
    /\ NonZeroAt(i, CoeffNMaxOf - cq.N[i] + 1)

SameParityOnly(i) ==
    \A c \in 1..(CoeffNMaxOf + 1) :
        NonZeroAt(i, c) => (PowerOf(c) - cq.N[i]) % 2 = 0

\* C8 as stated: in the matrix of either generator every row has n_max + 1
\* columns, exactly n_max - n leading zeros, and non-zero coefficients only
\* at powers of the parity of n.
C8_ParityBothGenerators ==
    cres.gen # "none" /\ cres.ok =>
        \A i \in 1..Len(cres.mat) : RowShape(i) /\ SameParityOnly(i)

\* C8 amended: every row of either matrix has n_max + 1 columns in descending
\* power and exactly n_max - n leading zeros; the classical row is non-zero
\* only at powers of the parity of n, the generalized row is non-zero at every
\* power from n down to |m|, of both parities, and zero below |m|.
C8_RowLayout ==
    cres.gen # "none" /\ cres.ok =>
        \A i \in 1..Len(cres.mat) :
            /\ RowShape(i)
            /\ cres.gen = "zp" => SameParityOnly(i)
            /\ cres.gen = "gpzp" =>
                 \A c \in 1..(CoeffNMaxOf + 1) :
                     NonZeroAt(i, c) <=>
                         (AbsI(cq.M[i]) <= PowerOf(c) /\ PowerOf(c) <= cq.N[i])

C8_Witness ==
    /\ cres.gen = "gpzp"
    /\ cq.normalize
    /\ Len(cq.N) = 2
    /\ cq.N[1] < cq.N[2]
    /\ cq.N[1] - AbsI(cq.M[1]) >= 2
    /\ NonZeroAt(1, CoeffNMaxOf - cq.N[1] + 2)

(***************************************************************************)
(* Claims about fit (checked under SpecFit and SpecFirstFit).              *)
(***************************************************************************)
\* the moment array the extractor holds was stored by its latest fit call
StoredByLastCall ==
    /\ ext.moments # NoArr
    /\ ext.moments.call = ext.fits
    /\ ext.moments.img = last.img.id

\* C4: whenever a fit call returns normally, with any of the six method
\* selectors, the moment array the extractor holds was computed by that call
\* from that call's images: it is neither absent nor left from an earlier call.
C4_EachFitIndependent ==
    (last.op = "fit" /\ last.ok) => StoredByLastCall

\* C5: a 2D image with as many rows as the grid is fitted as a batch of one
\* by the requested strategy; a 2D image with more rows is broadcast over the
\* polynomials and fitted by fftconv whatever method was requested, and the
\* stored array has one row per pixel and one column per polynomial.
C5_TwoDimDispatch ==
    (last.op = "fit" /\ last.img.ndim = 2) =>
        /\ (last.img.h = ext.size) =>
              /\ last.shape = <<1, last.img.h, last.img.w>>
              /\ (last.method \in FiveMethods) => (last.ran = last.method)
        /\ (last.img.h > ext.size) =>
              /\ last.shape = <<ext.n_components_, last.img.h, last.img.w>>
              /\ last.ran = "fftconv"
              /\ last.ok
              /\ StoredByLastCall
              /\ Rows(ext.moments) = last.img.h * last.img.w
              /\ Cols(ext.moments) = ext.n_components_
              /\ ext.moments.n = ext.n
              /\ ext.moments.m = ext.m

\* a 2D image larger than the grid was fitted with method "matrix"
C5_Witness ==
    /\ last.op = "fit"
    /\ last.img.ndim = 2
    /\ last.img.h > ext.size
    /\ last.method = "matrix"
    /\ last.ran = "fftconv"
    /\ Rows(ext.moments) = last.img.h * last.img.w
    /\ Cols(ext.moments) > 1

\* C6: a fit call on a 2D image with fewer rows than the grid, with any of
\* the five strategies, ends in an error and stores no moment array.
C6_SmallImageRaises ==
    (/\ last.op = "fit"
     /\ last.img.ndim = 2
     /\ last.img.h < ext.size
     /\ last.method \in FiveMethods) => (~last.ok /\ ext.moments = NoArr)

(***************************************************************************)
(* Claims about the moment arrays (checked under Spec and SpecPs).         *)
(***************************************************************************)
\* C1: a call of an algebra operation leaves the receiver's buffer and its
\* n, m, alpha as they were, and what it returns is a new array.
C1_AlgebraIsPure ==
    [][(last'.op \in AlgebraOps /\ last'.ok) => (recv' = recv /\ last'.fresh)]_vars

MetadataMatchesColumns(A) ==
    IsZm(A) => (Len(A.n) = Cols(A) /\ Len(A.m) = Cols(A))

\* C2: every moment array handed back, by ps_zps / ps_pzp and by the algebra
\* applied to their results, has n and m metadata as long as its column count.
C2_MetadataLength ==
    MetadataMatchesColumns(res) /\ MetadataMatchesColumns(recv)

SameMoments(x, y) ==
    /\ x.arr.buf = y.arr.buf
    /\ x.arr.n = y.arr.n
    /\ x.arr.m = y.arr.m

\* C7: on every real moment array, rot(a) followed by rot(b) succeeds and
\* gives the moment values and the n, m metadata of rot((a + b) mod 360).
C7_RotComposition ==
    (IsZm(recv) /\ recv.dtype = "real") =>
        \A a \in RotThetas, b \in RotThetas :
            \A x \in {rot(recv, a)}, z \in {rot(recv, (a + b) % 360)} :
                /\ x.ok
                /\ z.ok
                /\ \A y \in {rot(x.arr, b)} : y.ok /\ SameMoments(y, z)

\* row i of the operator touches only the columns of (n_i, m_i) and (n_i, -m_i)
BlockRows(A, op) ==
    /\ op.ok
    /\ \A i \in 1..Len(A.n) :
          /\ \A k \in 1..Len(A.n) :
                op.mat[i][k] # 0 =>
                    (A.n[k] = A.n[i] /\ AbsI(A.m[k]) = AbsI(A.m[i]))
          /\ (A.m[i] = 0) => (op.mat[i][i] = 1)

\* C9: on every real moment array of an extractor, filtered or not, rot and
\* ref succeed and their operator has, in row i, non-zero entries only in the
\* columns of that array holding (n_i, m_i) and (n_i, -m_i), and a 1 on the
\* diagonal when m_i = 0.
C9_BlockOperator ==
    (IsZm(recv) /\ recv.dtype = "real") =>
        /\ \A theta \in RotThetas :
              /\ rot(recv, theta).ok
              /\ BlockRows(recv, construct_rot_matrix(recv.n, recv.m, theta, None))
        /\ \A theta \in RefThetas :
              /\ ref(recv, theta).ok
              /\ BlockRows(recv, construct_ref_matrix(recv.n, recv.m, theta, None))

\* C10: a moment array returned by an algebra operation carries the alpha of
\* its receiver, and every index lookup of an algebra operation, those of
\* reflect_curve included, is made with the alpha of its receiver.
C10_AlphaCarried ==
    (last.op \in AlgebraOps /\ last.ok) =>
        /\ IsZm(res) => (res.alpha = recv.alpha)
        /\ last.lookup => (last.alphaUsed = recv.alpha)

=============================================================================
